---- MODULE Spec2Model ----
(***************************************************************************)
(* Calibre Intelligent Library: the chunked semantic retrieval core.       *)
(*                                                                         *)
(*   VectorIndex        src/backend/vector_search.py                       *)
(*   ChunksDB           src/backend/chunks_db.py                           *)
(*   EmbeddingsPipeline src/backend/embeddings.py                          *)
(*                                                                         *)
(* Floating point values are modelled in fixed point: a float f is the     *)
(* integer round(f * SCALE).  Raw input vectors have integer components;   *)
(* stored (normalized) vectors and query vectors are fixed point, and a    *)
(* similarity (an inner product of two such vectors) is in units of        *)
(* SCALE * SCALE.                                                          *)
(***************************************************************************)
EXTENDS Integers, Sequences, FiniteSets, TLC

VARIABLES
    dimension,   \* VectorIndex.dimension
    index,       \* VectorIndex.index: the FAISS IndexFlatIP, [d, xb]
    metadata,    \* VectorIndex.metadata: list of dicts
    faissFile,   \* <path>.faiss on disk
    metaFile,    \* <path>.meta on disk
    base,        \* ghost: index.ntotal when the instance was constructed or last loaded
    added,       \* ghost: the raw vectors add_vectors has added since then, in call order
    supplied,    \* ghost: for each of them the metadata record the caller gave, {} if none
    saved,       \* ghost: the instance as it was at the last completed save()
    books,       \* ChunksDB table books (rows in rowid order)
    chapters,    \* ChunksDB table chapters
    chunks,      \* ChunksDB table chunks
    state,       \* EmbeddingsPipeline.state of the live instance
    alive,       \* whether an EmbeddingsPipeline instance exists in a running process
    stateFile,   \* pipeline_state.pkl on disk
    marked,      \* ghost: book ids whose mark_book_processed call returned since the last reset
    booked,      \* ghost: total_chunks when the last mark_book_processed or reset returned
    tiePolicy,   \* order in which the FAISS build emits hits of equal inner product
    ret          \* the last call: operation, arguments, outcome

vars == <<dimension, index, metadata, faissFile, metaFile, base, added, supplied, saved,
          books, chapters, chunks, state, alive, stateFile, marked, booked, tiePolicy, ret>>

viVars   == <<dimension, index, metadata, base, added, supplied>>
diskVars == <<faissFile, metaFile, saved>>
dbVars   == <<books, chapters, chunks>>
pipeVars == <<state, alive, stateFile, marked, booked>>

----------------------------------------------------------------------------
(* Bounds of the model *)

Dim == 2          \* dimension the VectorIndex is constructed with
MaxVectors == 3   \* cap on index.ntotal
MaxBatch == 2     \* largest batch handed to add_vectors
MaxK == 3         \* largest k handed to search
SCALE == 10000    \* fixed-point resolution of a float
MaxStored == 2    \* cap on index.ntotal in the runs with metadata and with files
MaxWords == 5     \* most words of a text handed to chunk_text
MaxChunkSize == 4 \* largest chunk_size handed to chunk_text
MaxTexts == 4     \* most texts handed to encode_batch

----------------------------------------------------------------------------
(* Values *)

NoFile == [exists |-> FALSE]

EmptyDict == [key \in {} |-> 0]

Min(a, b) == IF a <= b THEN a ELSE b

\* a / b rounded to nearest, b > 0
RoundDiv(a, b) == IF a >= 0 THEN (2 * a + b) \div (2 * b)
                  ELSE -((2 * (-a) + b) \div (2 * b))

RECURSIVE SumSq(_)
SumSq(v) == IF Len(v) = 0 THEN 0 ELSE Head(v) * Head(v) + SumSq(Tail(v))

RECURSIVE Dot(_, _)
Dot(a, b) == IF Len(a) = 0 THEN 0 ELSE Head(a) * Head(b) + Dot(Tail(a), Tail(b))

RECURSIVE SqrtIn(_, _, _)
\* floor(sqrt(n)) by bisection, given lo * lo <= n < hi * hi
SqrtIn(n, lo, hi) ==
    IF hi - lo <= 1 THEN lo
    ELSE LET mid == (lo + hi) \div 2
         IN IF mid * mid <= n THEN SqrtIn(n, mid, hi) ELSE SqrtIn(n, lo, mid)

ISqrt(n) == SqrtIn(n, 0, n + 1)

\* np.linalg.norm of one raw row, in fixed point: sqrt(sum of squares) * SCALE
Norm(v) ==
    LET s == SumSq(v)
        whole == ISqrt(s)
    IN SqrtIn(s * SCALE * SCALE, whole * SCALE, (whole + 1) * SCALE)

Zero(d) == [i \in 1..d |-> 0]
Unit(d, i, c) == [j \in 1..d |-> IF j = i THEN c ELSE 0]
Ones(d) == [i \in 1..d |-> 1]

\* an ndarray: its shape and its rows
Array2(rows, w) == [rows |-> rows, shape |-> <<Len(rows), w>>]
\* np.array([]): one dimension, no element
Array1Empty == [rows |-> <<>>, shape |-> <<0>>]

\* the optional argument metadata: None, or a list
NoMeta == [given |-> FALSE, list |-> <<>>]
Meta(l) == [given |-> TRUE, list |-> l]
\* Python truth of `metadata`: neither None nor an empty list
Truthy(md) == md.given /\ Len(md.list) > 0

----------------------------------------------------------------------------
(* VectorIndex *)

\* a mutant of NormalizeRow that stores the row as it was given
Unnormalized(v) == [c \in 1..Len(v) |-> v[c] * SCALE]

\* one row of normalize_vectors: norms == 0 are replaced by 1, then v / norm
NormalizeRow(v) ==
    LET n == Norm(v)
        n1 == IF n = 0 THEN SCALE ELSE n
    IN [c \in 1..Len(v) |-> RoundDiv(v[c] * SCALE * SCALE, n1)]

normalize_vectors(rows) == [i \in 1..Len(rows) |-> NormalizeRow(rows[i])]

\* faiss.IndexFlatIP(d)
NewIndex(d) == [d |-> d, xb |-> <<>>]

ntotal(idx) == Len(idx.xb)

\* a mutant of faiss_add that stores the new rows in front of the old ones
faiss_add_front(idx, x) == [idx EXCEPT !.xb = x \o @]

\* index.add(x): the rows are appended, row i of x gets id ntotal + i
faiss_add(idx, x) == [idx EXCEPT !.xb = @ \o x]

\* a mutant of DimensionMismatch that lets every batch through
DimensionUnchecked(vectors, dim) == FALSE

\* `if vectors.shape[1] != self.dimension`
DimensionMismatch(vectors, dim) == vectors.shape[2] # dim

AddRet(vectors, md, status) ==
    [md |-> md, vectors |-> vectors, status |-> status, op |-> "add_vectors"]

EmptyDicts(n) == [i \in 1..n |-> EmptyDict]

\* a mutant of StoreMetadata that puts the new records in front of the old ones
StoreMetadataFront(old, md, n) ==
    (IF Truthy(md) THEN md.list ELSE EmptyDicts(n)) \o old

\* `if metadata: extend(metadata) else: extend([{}] * len(vectors))`
StoreMetadata(old, md, n) ==
    old \o (IF Truthy(md) THEN md.list ELSE EmptyDicts(n))

\* the record the caller gave for each of the n vectors of a batch
RecordsGiven(md, n) ==
    [i \in 1..n |-> IF md.given /\ i <= Len(md.list) THEN md.list[i] ELSE EmptyDict]

add_vectors(vectors, md) ==
    /\ ntotal(index) + Len(vectors.rows) <= MaxVectors
    /\ IF Len(vectors.shape) < 2
       THEN \* vectors.shape[1] on a one-dimensional array
            /\ ret' = AddRet(vectors, md, "IndexError")
            /\ UNCHANGED viVars
       ELSE IF DimensionMismatch(vectors, dimension)
       THEN /\ ret' = AddRet(vectors, md, "ValueError")
            /\ UNCHANGED viVars
       ELSE LET normalized == normalize_vectors(vectors.rows) IN
            IF vectors.shape[2] # index.d
            THEN \* index.add asserts the width of its argument
                 /\ ret' = AddRet(vectors, md, "AssertionError")
                 /\ UNCHANGED viVars
            ELSE /\ index' = faiss_add(index, normalized)
                 /\ metadata' = StoreMetadata(metadata, md, Len(vectors.rows))
                 /\ added' = added \o vectors.rows
                 /\ supplied' = supplied \o RecordsGiven(md, Len(vectors.rows))
                 /\ ret' = AddRet(vectors, md, "ok")
                 /\ UNCHANGED <<dimension, base>>
    /\ UNCHANGED <<diskVars, dbVars, pipeVars, tiePolicy>>

\* inner products of the query with every stored row
Sims(xb, qn) == [i \in 1..Len(xb) |-> Dot(xb[i], qn)]

\* a mutant of Kept that retains the smaller inner products
KeptSmallest(s, i, j) == s[i] < s[j] \/ (s[i] = s[j] /\ i < j)

\* the scan keeps row i rather than row j: a larger inner product wins, and a
\* later row replaces a kept one only when it is strictly larger
Kept(s, i, j) == s[i] > s[j] \/ (s[i] = s[j] /\ i < j)

\* the rows the top-k scan retains
TopK(s, k) == {i \in DOMAIN s : Cardinality({j \in DOMAIN s : Kept(s, j, i)}) < k}

\* a mutant of Before that emits the hits by increasing inner product
BeforeAscending(s, i, j) == s[i] < s[j] \/ (s[i] = s[j] /\ i < j)

\* hit i is emitted before hit j: by decreasing inner product; FAISS states no
\* order among equal inner products, the build decides it (tiePolicy)
Before(s, i, j) ==
    s[i] > s[j] \/ (s[i] = s[j] /\ IF tiePolicy = "asc" THEN i < j ELSE i > j)

\* the elements of `top` in the order Before
Ordered(s, top) ==
    [p \in 1..Cardinality(top) |->
        CHOOSE i \in top : Cardinality({j \in top : Before(s, j, i)}) = p - 1]

\* index.search(x, k) for one query row: labels are 0-based row ids
faiss_search(idx, qn, k) ==
    LET s == Sims(idx.xb, qn)
        o == Ordered(s, TopK(s, k))
    IN [similarities |-> [p \in DOMAIN o |-> s[o[p]]],
        indices |-> [p \in DOMAIN o |-> o[p] - 1]]

SearchRet(q, k, status, res) ==
    [status |-> status, op |-> "search", k |-> k, similarities |-> res.similarities,
     indices |-> res.indices, q |-> q]

NoHits == [similarities |-> <<>>, indices |-> <<>>]

\* `k = min(k, self.index.ntotal)`
ClampK(k, n) == Min(k, n)

\* VectorIndex.search as a function of the instance: [status, similarities, indices]
SearchResult(idx, q, k) ==
    IF ntotal(idx) = 0
    THEN [status |-> "ok", res |-> NoHits]
    ELSE LET query_normalized == NormalizeRow(q)
             k2 == ClampK(k, ntotal(idx))
         IN IF Len(q) # idx.d \/ k2 <= 0
            THEN \* index.search asserts the width of the query and k > 0
                 [status |-> "AssertionError", res |-> NoHits]
            ELSE [status |-> "ok", res |-> faiss_search(idx, query_normalized, k2)]

search(q, k) ==
    /\ LET r == SearchResult(index, q, k)
       IN ret' = SearchRet(q, k, r.status, r.res)
    /\ UNCHANGED <<viVars, diskVars, dbVars, pipeVars, tiePolicy>>

\* `not text or not text.strip()`
IsBlank(text) == text \in {"", " "}

\* model.encode of a text that is not blank: what the sentence transformer
\* gives, a fixed vector of embedding_dim components for each text here
ModelEncode(text) == IF text = "calibre" THEN Ones(Dim) ELSE Unit(Dim, 1, 1)

\* valid_indices: the positions of the texts that are not blank, in order
ValidIndices(texts) ==
    SelectSeq([i \in 1..Len(texts) |-> i], LAMBDA i : ~IsBlank(texts[i]))

\* a mutant of Place that packs the embeddings at the front of the result
PlaceInOrder(valid_indices, i) == i

\* `result[valid_idx] = embeddings[i]`: the row that takes embedding i
Place(valid_indices, i) == valid_indices[i]

\* EmbeddingsGenerator.encode_batch: np.array([]) for no text, zeros when
\* every text is blank, else zeros with the embeddings of the valid texts
\* written at their rows
encode_batch(texts) ==
    LET valid_indices == ValidIndices(texts)
        embeddings == [i \in DOMAIN valid_indices |-> ModelEncode(texts[valid_indices[i]])]
        Takes(row, i) == Place(valid_indices, i) = row
    IN IF Len(texts) = 0 THEN Array1Empty
       ELSE IF Len(valid_indices) = 0
       THEN Array2([row \in 1..Len(texts) |-> Zero(Dim)], Dim)
       ELSE Array2([row \in 1..Len(texts) |->
                       IF \E i \in DOMAIN valid_indices : Takes(row, i)
                       THEN embeddings[CHOOSE i \in DOMAIN valid_indices : Takes(row, i)]
                       ELSE Zero(Dim)], Dim)

\* SearchEngine.index_texts
index_texts(texts, md) == add_vectors(encode_batch(texts), md)

\* {**a, **b}: the keys of both, with the value of b where both have the key
Merge(a, b) ==
    [key \in DOMAIN a \cup DOMAIN b |-> IF key \in DOMAIN b THEN b[key] ELSE a[key]]

\* VectorIndex.search_with_metadata as a function of the instance
SearchWithMetadata(idx, md, q, k) ==
    LET r == SearchResult(idx, q, k)
        hits == r.res.indices
    IN IF r.status # "ok" THEN [status |-> r.status, results |-> <<>>]
       ELSE IF \E p \in DOMAIN hits : hits[p] >= Len(md)
       THEN \* self.metadata[idx] beyond the end of the list
            [status |-> "IndexError", results |-> <<>>]
       ELSE [status |-> "ok",
             results |-> [p \in DOMAIN hits |->
                            Merge([index |-> hits[p], similarity |-> r.res.similarities[p]],
                                  md[hits[p] + 1])]]

search_with_metadata(q, k) ==
    /\ LET r == SearchWithMetadata(index, metadata, q, k)
       IN ret' = [status |-> r.status, op |-> "search_with_metadata", k |-> k,
                  q |-> q, results |-> r.results]
    /\ UNCHANGED <<viVars, diskVars, dbVars, pipeVars, tiePolicy>>

\* `if min_similarity > 0: results = [r for r in results if r['similarity'] >= min_similarity]`
FilterResults(results, min_similarity) ==
    LET Keep(r) == r.similarity >= min_similarity
    IN IF min_similarity > 0 THEN SelectSeq(results, Keep) ELSE results

\* SearchEngine.search, given the embedding encode_text returns for the query
engine_search(query_embedding, k, min_similarity) ==
    /\ LET r == SearchWithMetadata(index, metadata, query_embedding, k)
       IN ret' = [status |-> r.status, op |-> "engine_search", k |-> k,
                  q |-> query_embedding, results |-> FilterResults(r.results, min_similarity),
                  min_similarity |-> min_similarity]
    /\ UNCHANGED <<viVars, diskVars, dbVars, pipeVars, tiePolicy>>

----------------------------------------------------------------------------
(* VectorIndex.save / VectorIndex.load *)

RECURSIVE Flatten(_)
Flatten(rows) == IF Len(rows) = 0 THEN <<>> ELSE Head(rows) \o Flatten(Tail(rows))

\* faiss.write_index: the header (d, ntotal) and the rows, row-major
write_index(idx) ==
    [exists |-> TRUE, d |-> idx.d, ntotal |-> ntotal(idx), data |-> Flatten(idx.xb)]

\* a mutant of read_index that reads the rows back to front
read_index_reversed(blob) ==
    [d |-> blob.d,
     xb |-> [i \in 1..blob.ntotal |->
                SubSeq(blob.data, (blob.ntotal - i) * blob.d + 1, (blob.ntotal - i + 1) * blob.d)]]

\* faiss.read_index: row i is the i-th group of d values
read_index(blob) ==
    [d |-> blob.d,
     xb |-> [i \in 1..blob.ntotal |-> SubSeq(blob.data, (i - 1) * blob.d + 1, i * blob.d)]]

\* the pickled side-table {'dimension': ..., 'metadata': ...}
Pickle(dim, md) == [dimension |-> dim, metadata |-> md, exists |-> TRUE, readable |-> TRUE]

\* a file opened with 'wb' whose content never reached the disk
Truncated == [exists |-> TRUE, readable |-> FALSE]

Snapshot == [dimension |-> dimension, index |-> index, metadata |-> metadata, exists |-> TRUE]

save ==
    /\ faissFile' = write_index(index)
    /\ metaFile' = Pickle(dimension, metadata)
    /\ saved' = Snapshot
    /\ ret' = [status |-> "ok", op |-> "save"]
    /\ UNCHANGED <<viVars, dbVars, pipeVars, tiePolicy>>

\* VectorIndex(dimension=d) in a new process
NewInstance(d) ==
    /\ dimension' = d
    /\ index' = NewIndex(d)
    /\ metadata' = <<>>
    /\ base' = 0
    /\ added' = <<>>
    /\ supplied' = <<>>

\* the process dies in save() after write_index and before open(metadata_path, 'wb');
\* the next process constructs VectorIndex(d)
save_crash_after_blob(d) ==
    /\ faissFile' = write_index(index)
    /\ saved' = NoFile
    /\ NewInstance(d)
    /\ ret' = [status |-> "crash", op |-> "save"]
    /\ UNCHANGED <<metaFile, dbVars, pipeVars, tiePolicy>>

\* the process dies in save() after open(metadata_path, 'wb') and before the pickle
\* is flushed
save_crash_in_meta(d) ==
    /\ faissFile' = write_index(index)
    /\ metaFile' = Truncated
    /\ saved' = NoFile
    /\ NewInstance(d)
    /\ ret' = [status |-> "crash", op |-> "save"]
    /\ UNCHANGED <<dbVars, pipeVars, tiePolicy>>

new_instance(d) ==
    /\ NewInstance(d)
    /\ ret' = [status |-> "ok", op |-> "new"]
    /\ UNCHANGED <<diskVars, dbVars, pipeVars, tiePolicy>>

LoadRet(status, fresh) == [status |-> status, op |-> "load", fresh |-> fresh]

\* a mutant of load_not_found that empties the instance before it raises
load_not_found_clearing(fresh) ==
    /\ ret' = LoadRet("FileNotFoundError", fresh)
    /\ NewInstance(dimension)

\* `if not index_path.exists(): raise FileNotFoundError`
load_not_found(fresh) ==
    /\ ret' = LoadRet("FileNotFoundError", fresh)
    /\ UNCHANGED viVars

load ==
    LET fresh == ntotal(index) = 0 /\ metadata = <<>> IN
    /\ IF ~faissFile.exists
       THEN load_not_found(fresh)
       ELSE /\ index' = read_index(faissFile)
            /\ base' = faissFile.ntotal
            /\ added' = <<>>
            /\ supplied' = <<>>
            /\ IF ~metaFile.exists
               THEN /\ ret' = LoadRet("ok", fresh)
                    /\ UNCHANGED <<dimension, metadata>>
               ELSE IF ~metaFile.readable
               THEN \* pickle.load raises after self.index was replaced
                    /\ ret' = LoadRet("EOFError", fresh)
                    /\ UNCHANGED <<dimension, metadata>>
               ELSE /\ dimension' = metaFile.dimension
                    /\ metadata' = metaFile.metadata
                    /\ ret' = LoadRet("ok", fresh)
    /\ UNCHANGED <<diskVars, dbVars, pipeVars, tiePolicy>>

----------------------------------------------------------------------------
(* ChunksDB: three tables, rows in rowid order.  The connection never issues  *)
(* PRAGMA foreign_keys, so SQLite parses the FOREIGN KEY clauses and does not  *)
(* enforce them.                                                               *)

\* INTEGER PRIMARY KEY AUTOINCREMENT of a table no row was ever deleted from
NextId(table) == Len(table) + 1

Rows(table) == {table[i] : i \in DOMAIN table}

\* a mutant of BookConflict: a books table without the UNIQUE constraint
BookConflictNever(table, book) == FALSE

\* books: calibre_id INTEGER NOT NULL UNIQUE
BookConflict(table, book) == \E r \in Rows(table) : r.calibre_id = book.calibre_id

\* chapters: UNIQUE(book_id, chapter_num)
ChapterConflict(table, ch) ==
    \E r \in Rows(table) : r.book_id = ch.book_id /\ r.chapter_num = ch.chapter_num

\* chunks: UNIQUE(chapter_id, chunk_num)
ChunkConflict(table, c) ==
    \E r \in Rows(table) : r.chapter_id = c.chapter_id /\ r.chunk_num = c.chunk_num

InsertRow(table, row) == Append(table, [row EXCEPT !.id = NextId(table)])

DbRet(op, arg, status, id) == [status |-> status, op |-> op, id |-> id, arg |-> arg]

add_book(book) ==
    /\ IF BookConflict(books, book)
       THEN /\ ret' = DbRet("add_book", book, "IntegrityError", 0)
            /\ UNCHANGED books
       ELSE /\ books' = InsertRow(books, book)
            /\ ret' = DbRet("add_book", book, "ok", NextId(books))
    /\ UNCHANGED <<chapters, chunks, viVars, diskVars, pipeVars, tiePolicy>>

add_chapter(chapter) ==
    /\ IF ChapterConflict(chapters, chapter)
       THEN /\ ret' = DbRet("add_chapter", chapter, "IntegrityError", 0)
            /\ UNCHANGED chapters
       ELSE /\ chapters' = InsertRow(chapters, chapter)
            /\ ret' = DbRet("add_chapter", chapter, "ok", NextId(chapters))
    /\ UNCHANGED <<books, chunks, viVars, diskVars, pipeVars, tiePolicy>>

add_chunk(chunk) ==
    /\ IF ChunkConflict(chunks, chunk)
       THEN /\ ret' = DbRet("add_chunk", chunk, "IntegrityError", 0)
            /\ UNCHANGED chunks
       ELSE /\ chunks' = InsertRow(chunks, chunk)
            /\ ret' = DbRet("add_chunk", chunk, "ok", NextId(chunks))
    /\ UNCHANGED <<books, chapters, viVars, diskVars, pipeVars, tiePolicy>>

RECURSIVE InsertMany(_, _)
\* executemany inside one transaction: the table after the rows, or the
\* failure of the first row that violates the constraint
InsertMany(table, cs) ==
    IF Len(cs) = 0 THEN [table |-> table, ok |-> TRUE]
    ELSE IF ChunkConflict(table, Head(cs)) THEN [table |-> table, ok |-> FALSE]
    ELSE InsertMany(InsertRow(table, Head(cs)), Tail(cs))

\* a mutant of RolledBack that keeps what the failed transaction wrote
NotRolledBack(before, after) == after

\* `with self._connect() as conn`: an exception leaves the block through
\* __exit__, which rolls the open transaction back
RolledBack(before, after) == before

add_chunks_batch(cs) ==
    /\ LET r == InsertMany(chunks, cs) IN
       IF r.ok
       THEN /\ chunks' = r.table
            /\ ret' = DbRet("add_chunks_batch", cs, "ok", 0)
       ELSE /\ ret' = DbRet("add_chunks_batch", cs, "IntegrityError", 0)
            /\ chunks' = RolledBack(chunks, r.table)
    /\ UNCHANGED <<books, chapters, viVars, diskVars, pipeVars, tiePolicy>>

\* the rows of `chunks c JOIN chapters ch ON c.chapter_id = ch.id JOIN books b
\* ON ch.book_id = b.id WHERE c.embedding_id = ?`, with the selected columns
JoinRows(embedding_id) ==
    {[text |-> c.text, calibre_id |-> b.calibre_id, book_id |-> b.id,
      chapter_num |-> ch.chapter_num, chapter_id |-> ch.id, chunk_num |-> c.chunk_num,
      chunk_id |-> c.id, chapter_title |-> ch.title, book_title |-> b.title,
      author |-> b.author] :
        <<c, ch, b>> \in {t \in Rows(chunks) \X Rows(chapters) \X Rows(books) :
                             /\ t[1].embedding_id = embedding_id
                             /\ t[1].chapter_id = t[2].id
                             /\ t[2].book_id = t[3].id}}

\* get_chunk_with_context: cursor.fetchone() of the join, None if it has no
\* row; SQL fixes no order among several rows
get_chunk_with_context(embedding_id) ==
    /\ IF JoinRows(embedding_id) = {}
       THEN ret' = [status |-> "ok", op |-> "get_chunk_with_context",
                    row |-> EmptyDict, arg |-> embedding_id, found |-> FALSE]
       ELSE \E r \in JoinRows(embedding_id) :
               ret' = [status |-> "ok", op |-> "get_chunk_with_context",
                       row |-> r, arg |-> embedding_id, found |-> TRUE]
    /\ UNCHANGED <<dbVars, viVars, diskVars, pipeVars, tiePolicy>>

\* get_book_by_calibre_id(calibre_id) is not None
book_exists(calibre_id) == \E r \in Rows(books) : r.calibre_id = calibre_id

----------------------------------------------------------------------------
(* EmbeddingsPipeline: the resumable state and its file *)

PickleState(st) == [state |-> st, exists |-> TRUE, readable |-> TRUE]

\* a mutant of save_state that leaves the file as it is
save_state_skipped(st, file) == file

\* _save_state: open(state_file, 'wb'), pickle.dump(state)
save_state(st, file) == PickleState(st)

is_book_processed(book_id) == book_id \in state.processed_books

get_stats ==
    [processed_books |-> Cardinality(state.processed_books),
     total_chunks |-> state.total_chunks,
     last_book_id |-> state.last_book_id]

PipeRet(op, arg, status) == [status |-> status, op |-> op, arg |-> arg]

mark_book_processed(book_id) ==
    /\ alive
    /\ LET st == [state EXCEPT !.processed_books = @ \cup {book_id},
                               !.last_book_id = book_id]
       IN /\ state' = st
          /\ stateFile' = save_state(st, stateFile)
    /\ marked' = marked \cup {book_id}
    /\ booked' = state.total_chunks
    /\ ret' = [status |-> "ok", op |-> "mark_book_processed", arg |-> book_id,
                repeat |-> book_id \in state.processed_books,
                restarted |-> ret.op = "construct"]
    /\ UNCHANGED <<alive, viVars, diskVars, dbVars, tiePolicy>>

\* a mutant of TextCount that counts only the texts that were embedded
TextCountNonBlank(texts) == Len(SelectSeq(texts, LAMBDA t : ~IsBlank(t)))

\* len(texts)
TextCount(texts) == Len(texts)

\* process_texts(texts); encode_batch either returns or raises
process_texts(texts, embedded) ==
    /\ alive
    /\ IF embedded
       THEN LET embeddings == encode_batch(texts)
                st == [state EXCEPT !.total_chunks = @ + TextCount(texts)]
            IN /\ state' = st
               /\ stateFile' = save_state(st, stateFile)
               /\ ret' = [vectors |-> embeddings, status |-> "ok", op |-> "process_texts",
                           texts |-> texts, arg |-> Len(texts)]
       ELSE /\ ret' = [status |-> "error", op |-> "process_texts", texts |-> texts,
                        arg |-> Len(texts)]
            /\ UNCHANGED <<state, stateFile>>
    /\ UNCHANGED <<alive, marked, booked, viVars, diskVars, dbVars, tiePolicy>>

DefaultState == [processed_books |-> {}, total_chunks |-> 0, last_book_id |-> 0]

\* a mutant of reset that clears the chunk store as well (ChunksDB.clear_all)
reset_clearing_db ==
    /\ alive
    /\ state' = [processed_books |-> {}, total_chunks |-> 0, last_book_id |-> 0]
    /\ stateFile' = PickleState(state')
    /\ marked' = {}
    /\ booked' = 0
    /\ books' = <<>>
    /\ chapters' = <<>>
    /\ chunks' = <<>>
    /\ ret' = [status |-> "ok", op |-> "reset", arg |-> 0]
    /\ UNCHANGED <<alive, viVars, diskVars, tiePolicy>>

reset ==
    /\ alive
    /\ state' = DefaultState
    /\ stateFile' = save_state(DefaultState, stateFile)
    /\ marked' = {}
    /\ booked' = 0
    /\ ret' = PipeRet("reset", 0, "ok")
    /\ UNCHANGED <<alive, viVars, diskVars, dbVars, tiePolicy>>

\* the process dies between two calls of the pipeline
crash ==
    /\ alive
    /\ alive' = FALSE
    /\ state' = DefaultState
    /\ ret' = PipeRet("crash", 0, "crash")
    /\ UNCHANGED <<stateFile, marked, booked, viVars, diskVars, dbVars, tiePolicy>>

\* the process dies inside the _save_state of a process_texts or
\* mark_book_processed call, after open(state_file, 'wb') has truncated the
\* file and before the pickle is flushed to it
crash_in_save_state ==
    /\ alive
    /\ alive' = FALSE
    /\ state' = DefaultState
    /\ stateFile' = Truncated
    /\ ret' = PipeRet("crash", 0, "crash")
    /\ UNCHANGED <<marked, booked, viVars, diskVars, dbVars, tiePolicy>>

\* a mutant of load_state that always starts from the default state
load_state_default(file) == [state |-> DefaultState, ok |-> TRUE]

\* _load_state: the pickled state if the file exists, else the default state;
\* pickle.load raises on a file it cannot read
load_state(file) ==
    IF ~file.exists THEN [state |-> DefaultState, ok |-> TRUE]
    ELSE IF ~file.readable THEN [state |-> DefaultState, ok |-> FALSE]
    ELSE [state |-> file.state, ok |-> TRUE]

\* EmbeddingsPipeline(generator, output_dir) in a new process
construct ==
    /\ ~alive
    /\ LET r == load_state(stateFile) IN
       IF r.ok
       THEN /\ alive' = TRUE
            /\ state' = r.state
            /\ ret' = PipeRet("construct", 0, "ok")
       ELSE /\ ret' = PipeRet("construct", 0, "EOFError")
            /\ UNCHANGED <<alive, state>>
    /\ UNCHANGED <<stateFile, marked, booked, viVars, diskVars, dbVars, tiePolicy>>

----------------------------------------------------------------------------
(* EPUBExtractor.chunk_text.  A text is the list of its words, text.split(),   *)
(* and a word is named by its position in the text, from 0.                    *)

\* the words of a text of n words
Words(n) == [j \in 1..n |-> j - 1]

\* words[i:j] for 0 <= i and 0 <= j
Slice(words, i, j) ==
    LET hi == Min(j, Len(words))
    IN IF i >= hi THEN <<>> ELSE SubSeq(words, i + 1, hi)

RECURSIVE RangeFrom(_, _, _)
\* range(i, n, step) for step > 0
RangeFrom(i, n, step) == IF i >= n THEN <<>> ELSE <<i>> \o RangeFrom(i + step, n, step)

\* a mutant of Stride that ignores the overlap
StrideWithoutOverlap(chunk_size, overlap) == chunk_size

\* the step of `range(0, len(words), chunk_size - overlap)`
Stride(chunk_size, overlap) == chunk_size - overlap

\* `if chunk: chunks.append(chunk)` over the windows, in the order of the loop
NonEmptyChunks(windows) == SelectSeq(windows, LAMBDA c : Len(c) > 0)

\* chunk_text(text, chunk_size, overlap) for a text of n words: range raises
\* on a step of 0 and is empty on a negative step
ChunkTextResult(n, chunk_size, overlap) ==
    LET words == Words(n)
        step == Stride(chunk_size, overlap)
    IN IF step = 0 THEN [chunks |-> <<>>, status |-> "ValueError"]
       ELSE IF step < 0 THEN [chunks |-> <<>>, status |-> "ok"]
       ELSE LET starts == RangeFrom(0, n, step)
            IN [chunks |-> NonEmptyChunks([p \in DOMAIN starts |->
                                Slice(words, starts[p], starts[p] + chunk_size)]),
                status |-> "ok"]

chunk_text(n, chunk_size, overlap) ==
    /\ LET r == ChunkTextResult(n, chunk_size, overlap)
       IN ret' = [chunks |-> r.chunks, n |-> n, status |-> r.status,
                  op |-> "chunk_text", chunk_size |-> chunk_size, overlap |-> overlap]
    /\ UNCHANGED <<viVars, diskVars, dbVars, pipeVars, tiePolicy>>

----------------------------------------------------------------------------
(* Initial values *)

VIInit ==
    /\ dimension = Dim
    /\ index = NewIndex(Dim)
    /\ metadata = <<>>
    /\ base = 0
    /\ added = <<>>
    /\ supplied = <<>>

DiskInit ==
    /\ faissFile = NoFile
    /\ metaFile = NoFile
    /\ saved = NoFile

DBInit ==
    /\ books = <<>>
    /\ chapters = <<>>
    /\ chunks = <<>>

PipeInit ==
    /\ state = DefaultState
    /\ alive = TRUE
    /\ stateFile = NoFile
    /\ marked = {}
    /\ booked = 0

----------------------------------------------------------------------------
(* add_vectors on its own: batches of every shape, with and without metadata *)

\* a vector that is not of unit length, a unit vector, and one whose normalized
\* components are rounded
AddPool == {Unit(Dim, 1, 2), Unit(Dim, 2, 1), Ones(Dim)}

RowsOf(pool, n) == [1..n -> pool]

GoodBatches == UNION {{Array2(r, Dim) : r \in RowsOf(AddPool, n)} : n \in 1..MaxBatch}

BadBatches == {Array2(<<Ones(Dim + 1)>>, Dim + 1), Array2(<<Ones(Dim - 1)>>, Dim - 1),
               Array1Empty}

MetaRecords == {EmptyDict, [id |-> 1]}

MetaArgs(n) == {NoMeta, Meta(<<>>)} \cup {Meta(l) : l \in RowsOf(MetaRecords, n)}

AddAny ==
    \E vectors \in GoodBatches \cup BadBatches :
        \E md \in MetaArgs(Len(vectors.rows)) : add_vectors(vectors, md)

Texts == {"", " ", "calibre"}

IndexTexts ==
    \E n \in 0..MaxBatch : \E texts \in [1..n -> Texts] : index_texts(texts, NoMeta)

InitAdd ==
    /\ VIInit /\ DiskInit /\ DBInit /\ PipeInit
    /\ tiePolicy = "asc"
    /\ ret = [status |-> "ok", op |-> "init"]

NextAdd == AddAny \/ IndexTexts

SpecAdd == InitAdd /\ [][NextAdd]_vars

----------------------------------------------------------------------------
(* add_vectors and search: the index is filled batch by batch and queried *)

TiePolicies == {"asc", "desc"}

\* the zero vector, two orthogonal unit vectors, the opposite of one of them,
\* and a vector at the same angle to both
SearchPool == {Zero(Dim), Unit(Dim, 1, 1), Unit(Dim, 2, 1), Unit(Dim, 1, -1), Ones(Dim)}

\* the last query has the wrong length
Queries == {Zero(Dim), Unit(Dim, 1, 1), Ones(Dim), Ones(Dim + 1)}

Ks == -1..MaxK

AddGood == \E v \in SearchPool : add_vectors(Array2(<<v>>, Dim), NoMeta)

Search == \E q \in Queries : \E k \in Ks : search(q, k)

InitSearch ==
    /\ VIInit /\ DiskInit /\ DBInit /\ PipeInit
    /\ tiePolicy \in TiePolicies
    /\ ret = [status |-> "ok", op |-> "init"]

NextSearch == AddGood \/ Search

SpecSearch == InitSearch /\ [][NextSearch]_vars

----------------------------------------------------------------------------
(* SearchEngine over an index whose vectors carry metadata or none *)

\* a vector that is not of unit length and one pointing the opposite way
EnginePool == {Unit(Dim, 1, 2), Unit(Dim, 1, -1)}

EngineBatches ==
    UNION {{Array2(r, Dim) : r \in RowsOf(EnginePool, n)} : n \in 1..MaxBatch}

EngineRecords == {[id |-> 1], [id |-> 2]}

\* no metadata, or one record per vector of the batch
EngineMetaArgs(n) == {NoMeta} \cup {Meta(l) : l \in RowsOf(EngineRecords, n)}

\* encode_text: the zero vector for an empty query, else what the model gives
EngineQueries == {Zero(Dim), Unit(Dim, 1, 1), Ones(Dim)}

\* thresholds -0.5, 0 (the default) and 0.5
MinSimilarities == {-((SCALE * SCALE) \div 2), 0, (SCALE * SCALE) \div 2}

EngineAdd ==
    \E vectors \in EngineBatches : \E md \in EngineMetaArgs(Len(vectors.rows)) :
        /\ ntotal(index) + Len(vectors.rows) <= MaxStored
        /\ add_vectors(vectors, md)

\* the best hit, or as many hits as the index can give
EngineKs == {1, MaxK}

SearchWithMeta == \E q \in EngineQueries : \E k \in EngineKs : search_with_metadata(q, k)

EngineSearch ==
    \E q \in EngineQueries : \E k \in EngineKs : \E m \in MinSimilarities :
        engine_search(q, k, m)

InitEngine ==
    /\ VIInit /\ DiskInit /\ DBInit /\ PipeInit
    /\ tiePolicy \in TiePolicies
    /\ ret = [status |-> "ok", op |-> "init"]

NextEngine == EngineAdd \/ SearchWithMeta \/ EngineSearch

SpecEngine == InitEngine /\ [][NextEngine]_vars

----------------------------------------------------------------------------
(* search_with_metadata over records that have a key named like a result field *)

\* a record as the tests give it, one with the key 'index' (the handle of the
\* first vector) and one with the key 'similarity' (1.0)
KeyRecords == {[id |-> 1], [index |-> 0], [similarity |-> SCALE * SCALE]}

KeysAdd ==
    \E v \in EnginePool : \E r \in KeyRecords :
        /\ ntotal(index) < MaxStored
        /\ add_vectors(Array2(<<v>>, Dim), Meta(<<r>>))

KeysSearch == \E q \in EngineQueries : \E k \in EngineKs : search_with_metadata(q, k)

InitKeys ==
    /\ VIInit /\ DiskInit /\ DBInit /\ PipeInit
    /\ tiePolicy \in TiePolicies
    /\ ret = [status |-> "ok", op |-> "init"]

NextKeys == KeysAdd \/ KeysSearch

SpecKeys == InitKeys /\ [][NextKeys]_vars

----------------------------------------------------------------------------
(* Persistence: an index is filled, saved (completely or not), and loaded *)

PersistPool == {Unit(Dim, 1, 1), Ones(Dim)}

PersistBatches ==
    UNION {{Array2(r, Dim) : r \in RowsOf(PersistPool, n)} : n \in 1..MaxBatch}

\* metadata as the tests give it: {'id': i} for the i-th vector
Ids(first, n) == [i \in 1..n |-> [id |-> first + i - 1]]

AddWithIds ==
    \E vectors \in PersistBatches :
        /\ ntotal(index) + Len(vectors.rows) <= MaxStored
        /\ Len(metadata) + Len(vectors.rows) <= MaxStored
        /\ add_vectors(vectors, Meta(Ids(ntotal(index), Len(vectors.rows))))

Save == save

SaveCrashAfterBlob == save_crash_after_blob(Dim)

SaveCrashInMeta == save_crash_in_meta(Dim)

Load == load

Restart == new_instance(Dim)

PersistSearch == search_with_metadata(Ones(Dim), MaxK)

InitPersist ==
    /\ VIInit /\ DiskInit /\ DBInit /\ PipeInit
    /\ tiePolicy \in TiePolicies
    /\ ret = [status |-> "ok", op |-> "init"]

NextPersist ==
    \/ AddWithIds \/ Save \/ SaveCrashAfterBlob \/ SaveCrashInMeta \/ Load \/ Restart
    \/ PersistSearch

SpecPersist == InitPersist /\ [][NextPersist]_vars

----------------------------------------------------------------------------
(* Instances of two dimensions that save to and load from the same path *)

Dimensions == {Dim, Dim + 1}

Construct_VectorIndex == \E d \in Dimensions : new_instance(d)

\* a vector of either width, with its metadata
AddOfWidth ==
    \E w \in Dimensions : \E v \in {Ones(w), Unit(w, 1, 1)} :
        /\ ntotal(index) < MaxStored
        /\ Len(metadata) < MaxStored
        /\ add_vectors(Array2(<<v>>, w), Meta(Ids(ntotal(index), 1)))

InitDims ==
    /\ VIInit /\ DiskInit /\ DBInit /\ PipeInit
    /\ tiePolicy = "asc"
    /\ ret = [status |-> "ok", op |-> "new"]

NextDims == Construct_VectorIndex \/ AddOfWidth \/ Save \/ Load

SpecDims == InitDims /\ [][NextDims]_vars

----------------------------------------------------------------------------
(* ChunksDB on its own *)

MaxBooks == 2      \* cap on the rows of books
MaxChapters == 1   \* cap on the rows of chapters
MaxChunks == 2     \* cap on the rows of chunks

\* BookRecord(id=None, calibre_id=c, title=..., author=..., ...)
BookRecord(c) ==
    [calibre_id |-> c, id |-> 0, title |-> <<"title", c>>, author |-> <<"author", c>>]

\* ChapterRecord(id=None, book_id=b, chapter_num=n, title=..., ...)
ChapterRecord(b, n) ==
    [book_id |-> b, chapter_num |-> n, id |-> 0, title |-> <<"chapter", b, n>>]

\* ChunkRecord(id=None, chapter_id=ch, chunk_num=n, text=..., embedding_id=e, ...)
ChunkRecord(ch, n, e) ==
    [text |-> <<"text", ch, n, e>>, chapter_id |-> ch, chunk_num |-> n, id |-> 0,
     embedding_id |-> e]

BookArgs == {BookRecord(c) : c \in {1, 2}}

ChapterArgs == {ChapterRecord(bn[1], bn[2]) : bn \in {<<1, 1>>, <<1, 2>>, <<2, 1>>}}

\* two chunks of chapter 1 with one embedding_id, a third with the key of the
\* second, and a chunk of chapter 2
ChunkArgs ==
    {ChunkRecord(t[1], t[2], t[3]) : t \in {<<1, 0, 0>>, <<1, 1, 0>>, <<1, 1, 1>>, <<2, 0, 1>>}}

ChunkBatches == [1..2 -> {c \in ChunkArgs : c.chapter_id = 1}]

\* the caps stop the tables growing; a call that fails is never held back
AddBook ==
    \E book \in BookArgs :
        /\ BookConflict(books, book) \/ Len(books) < MaxBooks
        /\ add_book(book)

AddChapter ==
    \E ch \in ChapterArgs :
        /\ ChapterConflict(chapters, ch) \/ Len(chapters) < MaxChapters
        /\ add_chapter(ch)

AddChunk ==
    \E c \in ChunkArgs :
        /\ ChunkConflict(chunks, c) \/ Len(chunks) < MaxChunks
        /\ add_chunk(c)

AddChunksBatch ==
    \E cs \in ChunkBatches :
        /\ InsertMany(chunks, cs).ok => Len(chunks) + Len(cs) <= MaxChunks
        /\ add_chunks_batch(cs)

InitDB ==
    /\ VIInit /\ DiskInit /\ DBInit /\ PipeInit
    /\ tiePolicy = "asc"
    /\ ret = [status |-> "ok", op |-> "init"]

GetChunkWithContext == \E h \in 0..2 : get_chunk_with_context(h)

NextDB == AddBook \/ AddChapter \/ AddChunk \/ AddChunksBatch \/ GetChunkWithContext

SpecDB == InitDB /\ [][NextDB]_vars

----------------------------------------------------------------------------
(* EmbeddingsPipeline on its own: calls, crashes and restarts *)

MaxTotalChunks == 3   \* cap on state['total_chunks']

BookIds == {1, 2, 3}

MarkBook == \E b \in BookIds : mark_book_processed(b)

PipeTexts == {"", "calibre"}

ProcessTexts ==
    \E n \in 0..MaxBatch : \E texts \in [1..n -> PipeTexts] : \E embedded \in BOOLEAN :
        state.total_chunks + n <= MaxTotalChunks /\ process_texts(texts, embedded)

Reset == reset

Crash == crash

CrashInSaveState == crash_in_save_state

Construct == construct

InitPipe ==
    /\ VIInit /\ DiskInit /\ DBInit /\ PipeInit
    /\ tiePolicy = "asc"
    /\ ret = [status |-> "ok", op |-> "init"]

NextPipe == MarkBook \/ ProcessTexts \/ Reset \/ Crash \/ CrashInSaveState \/ Construct

SpecPipe == InitPipe /\ [][NextPipe]_vars

----------------------------------------------------------------------------
(* chunk_text on texts of every length, with every chunk_size and overlap *)

ChunkText ==
    \E n \in 0..MaxWords : \E chunk_size \in 1..MaxChunkSize :
        \E overlap \in 0..(MaxChunkSize + 1) : chunk_text(n, chunk_size, overlap)

InitChunk ==
    /\ VIInit /\ DiskInit /\ DBInit /\ PipeInit
    /\ tiePolicy = "asc"
    /\ ret = [status |-> "ok", op |-> "init"]

NextChunk == ChunkText

SpecChunk == InitChunk /\ [][NextChunk]_vars

----------------------------------------------------------------------------
(* encode_batch on every list of blank and non-blank texts *)

EncodeTexts == {"", " ", "calibre", "library"}

EncodeBatch ==
    \E n \in 0..MaxTexts : \E texts \in [1..n -> EncodeTexts] :
        /\ ret' = [vectors |-> encode_batch(texts), status |-> "ok", op |-> "encode_batch",
                    texts |-> texts]
        /\ UNCHANGED <<viVars, diskVars, dbVars, pipeVars, tiePolicy>>

InitEncode ==
    /\ VIInit /\ DiskInit /\ DBInit /\ PipeInit
    /\ tiePolicy = "asc"
    /\ ret = [status |-> "ok", op |-> "init"]

NextEncode == EncodeBatch

SpecEncode == InitEncode /\ [][NextEncode]_vars

----------------------------------------------------------------------------
(* The three components in one process: every public operation may be called *)
(* at any time; the repository has no caller that orders them.               *)

SysAddVectors ==
    /\ ntotal(index) < MaxStored
    /\ add_vectors(Array2(<<Ones(Dim)>>, Dim), NoMeta)

SysAddBook == Len(books) < 1 /\ add_book(BookRecord(1))

SysAddChapter ==
    Len(chapters) < 1 /\ add_chapter(ChapterRecord(1, 1))

SysChunkArgs == {ChunkRecord(1, n, e) : n \in {0, 1}, e \in {0, 1}}

SysAddChunk == \E c \in SysChunkArgs : add_chunk(c)

SysAddChunksBatch ==
    \E cs \in [1..2 -> SysChunkArgs] : Len(chunks) = 0 /\ add_chunks_batch(cs)

SysMarkBook == mark_book_processed(1)

SysCrash == crash

SysConstruct == construct

SysReset == reset

SysSave == save

InitSys ==
    /\ VIInit /\ DiskInit /\ DBInit /\ PipeInit
    /\ tiePolicy = "asc"
    /\ ret = [status |-> "ok", op |-> "init"]

NextSys ==
    \/ SysAddVectors \/ SysAddBook \/ SysAddChapter \/ SysAddChunk \/ SysAddChunksBatch
    \/ SysMarkBook \/ SysCrash \/ SysConstruct \/ SysReset \/ SysSave

SpecSys == InitSys /\ [][NextSys]_vars

----------------------------------------------------------------------------
(* Claims about VectorIndex *)

\* the vector stored under handle h (0-based)
Stored(h) == index.xb[h + 1]

\* C1: after any successful add_vectors calls the j-th vector added overall
\* (0-based) is stored, normalized, under handle j, and the count is the number
\* of vectors added: handles are dense, none skipped, none reused.
C1_HandleDensity ==
    /\ ntotal(index) = base + Len(added)
    /\ \A j \in 0..(Len(added) - 1) : Stored(base + j) = NormalizeRow(added[j + 1])

\* three vectors added in at least two batches
C1_Witness ==
    /\ ret.op = "add_vectors" /\ ret.status = "ok"
    /\ Len(added) = 3
    /\ Len(ret.vectors.rows) < Len(added)
    /\ added[1] # added[3]

\* C4: add_vectors with rows whose length differs from the index dimension
\* fails with the dimension-mismatch error (ValueError) and leaves the stored
\* vectors, the count and the metadata list as they were.
C4_ValidateBeforeMutate ==
    [][(/\ ret'.op = "add_vectors"
        /\ Len(ret'.vectors.shape) = 2
        /\ ret'.vectors.shape[2] # dimension)
       => (/\ ret'.status = "ValueError"
           /\ index' = index
           /\ metadata' = metadata)]_vars

\* a rejected batch, on an index that holds vectors and metadata
C4_Witness ==
    /\ ret.op = "add_vectors" /\ ret.status = "ValueError"
    /\ ntotal(index) >= 1
    /\ \E i \in DOMAIN metadata : metadata[i] # EmptyDict

\* C5: save then load into a fresh VectorIndex gives the count, the metadata
\* list and, for every query and k, the handles of search of the saved index.
C5_SaveLoadRoundTrip ==
    (/\ ret.op = "load" /\ ret.status = "ok" /\ ret.fresh
     /\ saved.exists
     /\ ntotal(saved.index) >= 1)
    => (/\ ntotal(index) = ntotal(saved.index)
        /\ metadata = saved.metadata
        /\ \A q \in Queries : \A k \in Ks :
              LET r1 == SearchResult(saved.index, q, k)
                  r2 == SearchResult(index, q, k)
              IN r1.status = r2.status /\ r1.res.indices = r2.res.indices)

\* a loaded index of two different vectors with their metadata
C5_Witness ==
    /\ ret.op = "load" /\ ret.status = "ok" /\ ret.fresh
    /\ saved.exists
    /\ ntotal(saved.index) = 2
    /\ saved.index.xb[1] # saved.index.xb[2]
    /\ Len(saved.metadata) = 2

\* C16 as claimed: add_vectors with an empty batch, as encode_batch gives for
\* no text, completes without error and leaves the stored vectors, the count
\* and the metadata list as they were.
C16_AsClaimed ==
    [][(ret'.op = "add_vectors" /\ Len(ret'.vectors.rows) = 0)
       => (/\ ret'.status = "ok"
           /\ index' = index
           /\ metadata' = metadata)]_vars

\* C14: load with no vector blob file at the path fails with the not-found
\* error (FileNotFoundError) and leaves the stored vectors, the count, the
\* dimension and the metadata of the instance as they were.
C14_LoadNotFound ==
    [][(ret'.op = "load" /\ ~faissFile.exists)
       => (/\ ret'.status = "FileNotFoundError"
           /\ index' = index
           /\ dimension' = dimension
           /\ metadata' = metadata)]_vars

\* a failed load on an instance that holds two vectors and their metadata
C14_Witness ==
    /\ ret.op = "load" /\ ret.status = "FileNotFoundError"
    /\ ~faissFile.exists
    /\ ntotal(index) = 2
    /\ Len(metadata) = 2

\* C15 as claimed: the dimension of an instance is the one given at
\* construction: no add_vectors, save or load call changes it.
C15_AsClaimed ==
    [][ret'.op \in {"add_vectors", "load"} \/ (ret'.op = "save" /\ ret'.status = "ok")
       => dimension' = dimension]_vars

\* the similarity of the query of the last search to the vector under handle h
SimTo(h) == Dot(NormalizeRow(ret.q), Stored(h))

Hits == DOMAIN ret.indices

Returned == {ret.indices[p] : p \in Hits}

C9_Descending ==
    /\ \A p \in Hits : ret.indices[p] \in 0..(ntotal(index) - 1)
    /\ \A p \in Hits : ret.similarities[p] = SimTo(ret.indices[p])
    /\ \A p1, p2 \in Hits : p1 < p2 => ret.similarities[p1] >= ret.similarities[p2]
    /\ \A p1, p2 \in Hits : p1 # p2 => ret.indices[p1] # ret.indices[p2]

C9_Top ==
    \A h \in (0..(ntotal(index) - 1)) \ Returned :
        \A p \in Hits : SimTo(h) <= ret.similarities[p]

C9_LowerHandleFirst ==
    /\ \A p1, p2 \in Hits :
          (p1 < p2 /\ ret.similarities[p1] = ret.similarities[p2])
              => ret.indices[p1] < ret.indices[p2]
    /\ \A h \in (0..(ntotal(index) - 1)) \ Returned :
          \A p \in Hits : SimTo(h) = ret.similarities[p] => ret.indices[p] < h

SearchOk == ret.op = "search" /\ ret.status = "ok"

\* C9 as claimed: hits by descending similarity, equal similarities by lower
\* handle first, and the hits are the top of the whole index under that order.
C9_AsClaimed == SearchOk => (C9_Descending /\ C9_Top /\ C9_LowerHandleFirst)

\* C9 as amended: hits by descending similarity, each with its own similarity,
\* and no vector left out is more similar than a hit; no order among equal
\* similarities.
C9_SearchOrder == SearchOk => (C9_Descending /\ C9_Top)

\* two hits of equal similarity and a vector left out
C9_Witness ==
    /\ SearchOk
    /\ Len(ret.indices) = 2
    /\ ntotal(index) = 3
    /\ ret.similarities[1] = ret.similarities[2]
    /\ ret.similarities[1] > 0

\* C10 as claimed: min(k, count) hits for k >= 1, none when the index is
\* empty, and none, without an error, for k <= 0.
C10_AsClaimed ==
    (ret.op = "search" /\ Len(ret.q) = index.d)
    => (/\ ret.status = "ok"
        /\ Len(ret.indices) = (IF ret.k >= 1 THEN Min(ret.k, ntotal(index)) ELSE 0))

\* the handles under which the raw vector v was inserted
HandlesOf(v) == {base + j - 1 : j \in {i \in DOMAIN added : added[i] = v}}

\* a similarity of at least 0.999
AtLeast999(sim) == sim >= 999 * ((SCALE * SCALE) \div 1000)

\* search(v, 1) of a non-zero vector that was inserted
SelfSearch ==
    /\ SearchOk /\ ret.k = 1
    /\ ret.q # Zero(Len(ret.q))
    /\ HandlesOf(ret.q) # {}

\* C11 as claimed: search(v, 1) returns every handle v was inserted under
\* first, with a similarity of at least 0.999, whatever else the index holds.
C11_AsClaimed ==
    SelfSearch => \A h \in HandlesOf(ret.q) :
                      ret.indices[1] = h /\ AtLeast999(ret.similarities[1])

\* C11 as amended: search(v, 1) returns a handle whose vector is as similar to
\* v as v itself, with a similarity of at least 0.999; it is the handle of v
\* when no vector under another handle is as similar to v.
C11_SelfSimilarity ==
    SelfSearch
    => (/\ Len(ret.indices) = 1
        /\ AtLeast999(ret.similarities[1])
        /\ \A h \in HandlesOf(ret.q) :
              /\ SimTo(ret.indices[1]) >= SimTo(h)
              /\ (\A g \in (0..(ntotal(index) - 1)) \ {h} : SimTo(g) < SimTo(h))
                     => ret.indices[1] = h)

\* v is not of unit length and was inserted last of three different vectors
C11_Witness ==
    /\ SelfSearch
    /\ ntotal(index) = 3
    /\ HandlesOf(ret.q) = {2}
    /\ ret.indices[1] = 2
    /\ SumSq(ret.q) > 1
    /\ \A g \in {0, 1} : SimTo(g) < SimTo(2) /\ SimTo(g) > 0
    /\ added[1] # added[2]

\* C12 as claimed: for every min_similarity, SearchEngine.search returns the
\* entries of search_with_metadata whose similarity is at least min_similarity,
\* in the same order.
C12_AsClaimed ==
    (ret.op = "engine_search" /\ ret.status = "ok")
    => LET AtLeast(r) == r.similarity >= ret.min_similarity
       IN ret.results =
             SelectSeq(SearchWithMetadata(index, metadata, ret.q, ret.k).results, AtLeast)

\* the handles of the hits of the last search_with_metadata, as search gives them
HitHandles == SearchResult(index, ret.q, ret.k).res.indices

\* C13: after add_vectors calls with one record per vector or no metadata, the
\* metadata list has one record per handle, the one given for that vector or
\* {}, and search_with_metadata returns with each hit the record of its handle.
C13_MetadataAligned ==
    /\ Len(metadata) = ntotal(index)
    /\ \A h \in 0..(ntotal(index) - 1) : metadata[h + 1] = supplied[h + 1]
    /\ ret.op = "search_with_metadata"
       => /\ ret.status = "ok"
          /\ Len(ret.results) = Len(HitHandles)
          /\ \A p \in DOMAIN ret.results :
                LET given == supplied[HitHandles[p] + 1]
                IN /\ "index" \notin DOMAIN given => ret.results[p].index = HitHandles[p]
                   /\ DOMAIN ret.results[p] = {"similarity", "index"} \cup DOMAIN given
                   /\ \A key \in DOMAIN given : ret.results[p][key] = given[key]

\* two hits, the second vector first; the first vector was added without
\* metadata and the second with a record
C13_Witness ==
    /\ ret.op = "search_with_metadata" /\ ret.status = "ok"
    /\ Len(ret.results) = 2
    /\ ret.results[1].index = 1
    /\ supplied[1] = EmptyDict
    /\ supplied[2] = [id |-> 2]
    /\ ret.results[1].id = 2

----------------------------------------------------------------------------
(* Claims about ChunksDB, the pipeline state and their composition *)

EmbeddingIds == {r.embedding_id : r \in Rows(chunks)}

RowsWithHandle(h) == {i \in DOMAIN chunks : chunks[i].embedding_id = h}

\* C2 as claimed: while the process runs and as many chunk rows as vectors
\* have been inserted (no insertion is half-way between the two stores), the
\* embedding_id values of the chunk rows are exactly the handles 0..count-1,
\* one chunk row per handle.
C2_AsClaimed ==
    (alive /\ Len(chunks) = ntotal(index))
    => (/\ EmbeddingIds = 0..(ntotal(index) - 1)
        /\ \A h \in EmbeddingIds : Cardinality(RowsWithHandle(h)) = 1)

\* C3 as claimed: no two chunk rows have the same embedding_id.
C3_AsClaimed ==
    \A i, j \in DOMAIN chunks : i # j => chunks[i].embedding_id # chunks[j].embedding_id

\* C6 as claimed: whenever a pipeline is constructed after a crash, every book
\* whose mark_book_processed call returned since the last reset is reported
\* processed and counted in the stats.
C6_AsClaimed ==
    ret.op = "construct"
    => (/\ ret.status = "ok"
        /\ \A b \in marked : is_book_processed(b)
        /\ get_stats.processed_books >= Cardinality(marked))

\* C7: across marks, re-marks, crashes and restarts, the stats of a live
\* pipeline count each book marked since the last reset exactly once.
C7_DistinctBooksCounted ==
    alive => (/\ state.processed_books = marked
              /\ get_stats.processed_books = Cardinality(marked))

\* the first call of a pipeline constructed after a crash marks again a book
\* that was marked before the crash, two books being marked in all
C7_Witness ==
    /\ ret.op = "mark_book_processed" /\ ret.repeat /\ ret.restarted
    /\ Cardinality(marked) = 2
    /\ get_stats.processed_books = 2

\* the books, by calibre id, the pipeline state records as processed
Processed ==
    IF alive THEN state.processed_books
    ELSE IF stateFile.exists /\ stateFile.readable THEN stateFile.state.processed_books
    ELSE {}

\* the chunk rows of the book with calibre id b
ChunkRowsOf(b) ==
    {c \in Rows(chunks) :
        \E ch \in Rows(chapters) : \E bk \in Rows(books) :
            c.chapter_id = ch.id /\ ch.book_id = bk.id /\ bk.calibre_id = b}

\* the vectors in the index the chunk rows of book b refer to
VectorsOf(b) == {c.embedding_id : c \in ChunkRowsOf(b)} \cap 0..(ntotal(index) - 1)

\* C8 as claimed: once a book is in processed_books, no step adds a chunk row
\* or a vector for that book.
C8_AsClaimed ==
    [][\A b \in Processed : ChunkRowsOf(b)' = ChunkRowsOf(b) /\ VectorsOf(b)' = VectorsOf(b)]_vars

----------------------------------------------------------------------------
(* Claims about the constraints and the queries of ChunksDB *)

\* the call that led to the next state repeats a key the tables already hold
RepeatsKey ==
    \/ /\ ret'.op = "add_book"
       /\ \E i \in DOMAIN books : books[i].calibre_id = ret'.arg.calibre_id
    \/ /\ ret'.op = "add_chapter"
       /\ \E i \in DOMAIN chapters : /\ chapters[i].book_id = ret'.arg.book_id
                                     /\ chapters[i].chapter_num = ret'.arg.chapter_num
    \/ /\ ret'.op = "add_chunk"
       /\ \E i \in DOMAIN chunks : /\ chunks[i].chapter_id = ret'.arg.chapter_id
                                   /\ chunks[i].chunk_num = ret'.arg.chunk_num

\* C17: add_book with a calibre_id already present, add_chapter with an
\* existing (book_id, chapter_num) and add_chunk with an existing (chapter_id,
\* chunk_num) fail with the duplicate-key error (sqlite3.IntegrityError) and
\* leave the three tables as they were.
C17_DuplicateRejected ==
    [][RepeatsKey => (ret'.status = "IntegrityError" /\ UNCHANGED dbVars)]_vars

\* a second book with the calibre_id of the first is rejected while a chapter
\* and a chunk are stored
C17_Witness ==
    /\ ret.op = "add_book" /\ ret.status = "IntegrityError"
    /\ Len(books) = 1 /\ books[1].calibre_id = ret.arg.calibre_id
    /\ Len(chapters) >= 1 /\ Len(chunks) >= 1

\* C18 as claimed: no chapter row without the book row its book_id names and
\* no chunk row without the chapter row its chapter_id names.
C18_AsClaimed ==
    /\ \A ch \in Rows(chapters) : \E b \in Rows(books) : b.id = ch.book_id
    /\ \A c \in Rows(chunks) : \E ch \in Rows(chapters) : ch.id = c.chapter_id

\* row i of a batch has the key of a row of the table or of an earlier row of
\* the batch
Offending(table, cs, i) ==
    \/ \E r \in Rows(table) : r.chapter_id = cs[i].chapter_id /\ r.chunk_num = cs[i].chunk_num
    \/ \E j \in 1..(i - 1) : cs[j].chapter_id = cs[i].chapter_id /\ cs[j].chunk_num = cs[i].chunk_num

\* C19: add_chunks_batch inserts every row of a batch without an offending
\* row, in order; a batch with an offending row fails and leaves the chunks
\* table as it was, the rows before the offending one included.
C19_BatchAtomic ==
    [][ret'.op = "add_chunks_batch"
       => LET cs == ret'.arg IN
          IF \E i \in DOMAIN cs : Offending(chunks, cs, i)
          THEN ret'.status = "IntegrityError" /\ chunks' = chunks
          ELSE /\ ret'.status = "ok"
               /\ Len(chunks') = Len(chunks) + Len(cs)
               /\ SubSeq(chunks', 1, Len(chunks)) = chunks
               /\ \A i \in DOMAIN cs :
                     chunks'[Len(chunks) + i] = [cs[i] EXCEPT !.id = Len(chunks) + i]]_vars

\* a rejected batch whose first row was valid: the second row repeats its key
C19_Witness ==
    /\ ret.op = "add_chunks_batch" /\ ret.status = "IntegrityError"
    /\ ~Offending(chunks, ret.arg, 1)
    /\ Offending(chunks, ret.arg, 2)
    /\ Len(chunks) = 1

\* C20 as claimed: get_chunk_with_context(h) returns nothing when no chunk row
\* has embedding_id = h, and otherwise the text of such a chunk with the title
\* and number of its chapter and the title, author and calibre_id of its book.
C20_AsClaimed ==
    ret.op = "get_chunk_with_context"
    => IF \A c \in Rows(chunks) : c.embedding_id # ret.arg
       THEN ~ret.found
       ELSE /\ ret.found
            /\ \E c \in Rows(chunks) : \E ch \in Rows(chapters) : \E b \in Rows(books) :
                  /\ c.embedding_id = ret.arg /\ ch.id = c.chapter_id /\ b.id = ch.book_id
                  /\ ret.row.text = c.text
                  /\ ret.row.chapter_title = ch.title
                  /\ ret.row.chapter_num = ch.chapter_num
                  /\ ret.row.book_title = b.title
                  /\ ret.row.author = b.author
                  /\ ret.row.calibre_id = b.calibre_id

----------------------------------------------------------------------------
(* Claims about chunk_text *)

\* the positions first .. last - 1, in order
Positions(first, last) == [j \in 1..(last - first) |-> first + j - 1]

\* the number of i >= 0 with i * stride < n
Windows(n, stride) == (n + stride - 1) \div stride

\* the words two chunks have in common
Shared(c1, c2) == {c1[j] : j \in DOMAIN c1} \cap {c2[j] : j \in DOMAIN c2}

ChunkedWithOverlap ==
    /\ ret.op = "chunk_text"
    /\ ret.overlap < ret.chunk_size

\* for each i with i * stride < n the words i * stride .. min(i * stride +
\* chunk_size, n) - 1, in that order and nothing else; every word is covered
C21_Chunks ==
    LET stride == ret.chunk_size - ret.overlap IN
    /\ ret.status = "ok"
    /\ Len(ret.chunks) = Windows(ret.n, stride)
    /\ \A i \in DOMAIN ret.chunks :
          ret.chunks[i] = Positions((i - 1) * stride,
                                    Min((i - 1) * stride + ret.chunk_size, ret.n))
    /\ \A w \in 0..(ret.n - 1) :
          \E i \in DOMAIN ret.chunks : \E j \in DOMAIN ret.chunks[i] : ret.chunks[i][j] = w

\* C21 as claimed: the chunks are those windows, and consecutive chunks share
\* exactly `overlap` words unless the later one is the final chunk.
C21_AsClaimed ==
    ChunkedWithOverlap
    => /\ C21_Chunks
       /\ \A i \in 1..(Len(ret.chunks) - 2) :
             Cardinality(Shared(ret.chunks[i], ret.chunks[i + 1])) = ret.overlap

\* C21 as amended: the chunks are those windows, and consecutive chunks share
\* exactly `overlap` words whenever the earlier one has chunk_size words.
C21_ChunkWindows ==
    ChunkedWithOverlap
    => /\ C21_Chunks
       /\ \A i \in 1..(Len(ret.chunks) - 1) :
             Len(ret.chunks[i]) = ret.chunk_size
                => Cardinality(Shared(ret.chunks[i], ret.chunks[i + 1])) = ret.overlap

\* three chunks with an overlap of one word, the last chunk shorter
C21_Witness ==
    /\ ChunkedWithOverlap
    /\ ret.overlap = 1
    /\ Len(ret.chunks) = 3
    /\ Len(ret.chunks[2]) = ret.chunk_size
    /\ Len(ret.chunks[3]) < ret.chunk_size
    /\ Cardinality(Shared(ret.chunks[1], ret.chunks[2])) = 1

\* C29 as claimed: for a text with words, chunk_size >= 1 and overlap >= 0,
\* overlap >= chunk_size included, chunk_text returns without error at least
\* one chunk, and the chunks cover every word.
C29_AsClaimed ==
    (ret.op = "chunk_text" /\ ret.n >= 1)
    => /\ ret.status = "ok"
       /\ Len(ret.chunks) >= 1
       /\ \A w \in 0..(ret.n - 1) :
             \E i \in DOMAIN ret.chunks : \E j \in DOMAIN ret.chunks[i] : ret.chunks[i][j] = w

----------------------------------------------------------------------------
(* process_texts and encode_batch *)

\* C22: a process_texts call that returns gives one vector for each text,
\* has added len(texts) to total_chunks and has written the new state to the
\* state file; a call whose embedding fails leaves total_chunks and the state
\* file as they were.
C22_ProcessTexts ==
    [][ret'.op = "process_texts"
        => IF ret'.status = "ok"
           THEN /\ Len(ret'.vectors.rows) = Len(ret'.texts)
                /\ state'.total_chunks = state.total_chunks + Len(ret'.texts)
                /\ stateFile'.exists /\ stateFile'.readable
                /\ stateFile'.state = state'
           ELSE /\ state' = state
                /\ stateFile' = stateFile]_vars

\* a second successful call, with a blank text among its two texts, after
\* which the counter and the state file both stand at three
C22_Witness ==
    /\ ret.op = "process_texts"
    /\ ret.status = "ok"
    /\ ret.texts = <<"", "calibre">>
    /\ Len(ret.vectors.rows) = 2
    /\ state.total_chunks = 3
    /\ stateFile.exists /\ stateFile.readable
    /\ stateFile.state.total_chunks = 3

\* C24: encode_batch returns one vector for each text, at the position of the
\* text: the zero vector of embedding_dim components for a blank text and
\* the embedding of the text otherwise.
C24_EncodeBatchAligned ==
    ret.op = "encode_batch"
    => /\ Len(ret.vectors.rows) = Len(ret.texts)
       /\ \A i \in DOMAIN ret.texts :
             ret.vectors.rows[i] = IF ret.texts[i] \in {"", " "}
                                   THEN Zero(Dim)
                                   ELSE ModelEncode(ret.texts[i])

\* blank texts before, between and after two different texts
C24_Witness ==
    /\ ret.op = "encode_batch"
    /\ ret.texts = <<" ", "library", "", "calibre">>
    /\ ret.vectors.rows[2] = ModelEncode("library")
    /\ ret.vectors.rows[4] = ModelEncode("calibre")
    /\ ret.vectors.rows[1] = Zero(Dim)

\* C28 as claimed: the chunk texts handed to process_texts for a book that
\* was not marked before the process died leave no trace: the pipeline built
\* after the crash starts from the total_chunks of the books that were
\* marked, so that processing the book again counts each of its texts once.
C28_AsClaimed ==
    (ret.op = "construct" /\ ret.status = "ok") => state.total_chunks = booked

\* C23: reset leaves the pipeline with no processed book, total_chunks 0 and
\* last_book_id at its initial value, writes that state to the state file, and
\* changes neither the chunk store nor the vector index, in memory or on disk.
C23_Reset ==
    [][ret'.op = "reset"
        => /\ state'.processed_books = {}
           /\ state'.total_chunks = 0
           /\ state'.last_book_id = 0
           /\ stateFile'.exists /\ stateFile'.readable
           /\ stateFile'.state = state'
           /\ UNCHANGED <<books, chapters, chunks>>
           /\ UNCHANGED <<dimension, index, metadata>>
           /\ UNCHANGED <<faissFile, metaFile>>]_vars

\* a reset in a process whose chunk store has a book and a chunk and whose
\* index holds a vector that was saved
C23_Witness ==
    /\ ret.op = "reset"
    /\ state = DefaultState
    /\ stateFile.exists /\ stateFile.readable
    /\ stateFile.state = DefaultState
    /\ Len(books) >= 1 /\ Len(chunks) >= 1
    /\ ntotal(index) >= 1
    /\ faissFile.exists /\ faissFile.ntotal >= 1

----------------------------------------------------------------------------
(* The stores seen by a reader while a writer inserts *)

\* C25 as claimed: in every state a reader can see, each chunk row has an
\* embedding_id below the count of the vector index: the vector is inserted
\* before its chunk row becomes visible.
C25_AsClaimed ==
    \A i \in DOMAIN chunks : chunks[i].embedding_id < ntotal(index)

----------------------------------------------------------------------------
(* Loading what an interrupted save left *)

\* C26 as claimed: load succeeds on an index file whose metadata file is
\* absent or holds a list (of any length), and a search_with_metadata that
\* follows a successful load returns one result for each hit, also for the
\* handles the loaded metadata list has no record for.
C26_AsClaimed ==
    [][/\ (/\ ret'.op = "load"
            /\ faissFile.exists
            /\ (~metaFile.exists \/ metaFile.readable))
           => ret'.status = "ok"
       /\ (/\ ret.op = "load" /\ ret.status = "ok"
            /\ ret'.op = "search_with_metadata"
            /\ ntotal(index) >= 1)
           => (/\ ret'.status = "ok"
               /\ Len(ret'.results) = Min(ret'.k, ntotal(index)))]_vars

----------------------------------------------------------------------------
(* Normalization *)

\* the rounding of the components and of the norm moves the squared norm of
\* a normalized row by less than this
UnitTolerance == 2 * Dim * SCALE

UnitNorm(v) ==
    /\ SumSq(v) - SCALE * SCALE <= UnitTolerance
    /\ SCALE * SCALE - SumSq(v) <= UnitTolerance

\* C27: a vector that is not zero is stored with L2 norm 1, the zero vector
\* is stored as the zero vector, and the similarity of a hit is 0 when the
\* query or the stored vector is the zero vector.
C27_Normalization ==
    /\ \A j \in DOMAIN added :
          IF added[j] = Zero(Len(added[j]))
          THEN Stored(base + j - 1) = added[j]
          ELSE UnitNorm(Stored(base + j - 1))
    /\ SearchOk
       => \A p \in Hits :
             (ret.q = Zero(Len(ret.q)) \/ added[ret.indices[p] + 1] = Zero(Dim))
                => ret.similarities[p] = 0

\* a search with a query that is not zero over an index that holds the zero
\* vector and a vector of norm above 1, the zero vector among the hits
C27_Witness ==
    /\ SearchOk
    /\ ret.q = Ones(Dim)
    /\ \E j \in DOMAIN added : added[j] = Ones(Dim) /\ UnitNorm(Stored(j - 1))
    /\ \E p \in Hits : /\ added[ret.indices[p] + 1] = Zero(Dim)
                        /\ Stored(ret.indices[p]) = Zero(Dim)
                        /\ ret.similarities[p] = 0

----------------------------------------------------------------------------
(* The fields of a search_with_metadata result *)

\* C30 as claimed: in every result of search_with_metadata the field
\* 'similarity' is the similarity search computed for the hit and the field
\* 'index' is the handle of the hit, whatever keys the stored record has.
C30_AsClaimed ==
    (ret.op = "search_with_metadata" /\ ret.status = "ok")
    => LET r == SearchResult(index, ret.q, ret.k).res
       IN \A p \in DOMAIN ret.results :
             /\ ret.results[p].index = r.indices[p]
             /\ ret.results[p].similarity = r.similarities[p]

====
